---- MODULE Spec2Model ----
(***************************************************************************)
(* State reconciliation of pyinfra's packaging helpers                     *)
(* (src/pyinfra/operations/util/packaging.py) as used by the pipx and asdf *)
(* operations.  Text is a sequence of one-character strings, so parsing,   *)
(* quoting and joining are computed character by character.                *)
(***************************************************************************)
EXTENDS Integers, Sequences, FiniteSets, TLC

\* Longest desired-package list handed to one reconciliation call.
MaxLen == 2

-----------------------------------------------------------------------------
(* Text helpers *)

Max(S) == CHOOSE x \in S : \A y \in S : y <= x

\* All enumerations of the finite set S (the iteration orders of a Python set).
Orderings(S) ==
  {f \in [1..Cardinality(S) -> S] : \A i, j \in 1..Cardinality(S) : f[i] = f[j] => i = j}

RECURSIVE Flatten(_)
Flatten(ss) == IF ss = <<>> THEN <<>> ELSE Head(ss) \o Flatten(Tail(ss))

\* str.join
RECURSIVE Join(_, _)
Join(sep, ss) ==
  IF ss = <<>> THEN <<>>
  ELSE IF Len(ss) = 1 THEN ss[1]
  ELSE ss[1] \o sep \o Join(sep, Tail(ss))

Range(s) == {s[i] : i \in 1..Len(s)}

-----------------------------------------------------------------------------
(* Pure functions of packaging.py *)

\* str.rsplit(sep, 1): at most one split, at the rightmost occurrence of sep.
rsplit_mut_leftmost(s, sep) ==
  LET hits == {i \in 1..Len(s) : i + Len(sep) - 1 <= Len(s)
                                  /\ SubSeq(s, i, i + Len(sep) - 1) = sep}
  IN IF hits = {} THEN <<s>>
     ELSE LET i == CHOOSE x \in hits : \A y \in hits : x <= y
          IN <<SubSeq(s, 1, i - 1), SubSeq(s, i + Len(sep), Len(s))>>

rsplit(s, sep) ==
  LET hits == {i \in 1..Len(s) : i + Len(sep) - 1 <= Len(s)
                                  /\ SubSeq(s, i, i + Len(sep) - 1) = sep}
  IN IF hits = {} THEN <<s>>
     ELSE LET i == Max(hits)
          IN <<SubSeq(s, 1, i - 1), SubSeq(s, i + Len(sep), Len(s))>>

parse_package_version_mut_leftmost(package, version_join, latest) ==
  LET package_spec == rsplit_mut_leftmost(package, version_join)
  IN IF Len(package_spec) = 1
     THEN <<package_spec[1], latest>>
     ELSE <<package_spec[1], package_spec[2]>>

parse_package_version(package, version_join, latest) ==
  LET package_spec == rsplit(package, version_join)
  IN IF Len(package_spec) = 1
     THEN <<package_spec[1], latest>>
     ELSE <<package_spec[1], package_spec[2]>>

\* The characters shlex leaves unquoted: [a-zA-Z0-9_@%+=:,./-]
SafeChars ==
  {"a","b","c","d","e","f","g","h","i","j","k","l","m","n","o","p","q","r","s",
   "t","u","v","w","x","y","z","A","B","C","D","E","F","G","H","I","J","K","L",
   "M","N","O","P","Q","R","S","T","U","V","W","X","Y","Z","0","1","2","3","4",
   "5","6","7","8","9","_","@","%","+","=",":",",",".","/","-"}

\* shlex.quote
shlex_quote(s) ==
  IF s = <<>> THEN <<"'", "'">>
  ELSE IF Range(s) \subseteq SafeChars THEN s
  ELSE <<"'">>
       \o Flatten([i \in 1..Len(s) |->
                     IF s[i] = "'" THEN <<"'", "\"", "'", "\"", "'">> ELSE <<s[i]>>])
       \o <<"'">>

_quote_package_spec_mut_trailing(packages, command_version_join) ==
  [i \in 1..Len(packages) |->
     LET package_name == packages[i][1]
         package_version == packages[i][2]
     IN IF command_version_join = <<" ">>
        THEN shlex_quote(package_name) \o <<" ">> \o shlex_quote(package_version)
        ELSE shlex_quote(package_name \o command_version_join \o package_version)]

_quote_package_spec(packages, command_version_join) ==
  [i \in 1..Len(packages) |->
     LET package_name == packages[i][1]
         package_version == packages[i][2]
     IN IF package_version = <<>>
        THEN shlex_quote(package_name)
        ELSE IF command_version_join = <<" ">>
        THEN shlex_quote(package_name) \o <<" ">> \o shlex_quote(package_version)
        ELSE shlex_quote(package_name \o command_version_join \o package_version)]

_issue_commands_mut_empty(command, specs, rollup_commands) ==
  IF rollup_commands
  THEN <<command \o <<" ">> \o Join(<<" ">>, specs)>>
  ELSE [i \in 1..Len(specs) |-> command \o <<" ">> \o specs[i]]

_issue_commands(command, specs, rollup_commands) ==
  IF specs = <<>> THEN <<>>
  ELSE IF rollup_commands
  THEN <<command \o <<" ">> \o Join(<<" ">>, specs)>>
  ELSE [i \in 1..Len(specs) |-> command \o <<" ">> \o specs[i]]

\* host.noop messages; a (name, version) tuple is shown as "name version".
_issue_noops(packages, tuples, present) ==
  [i \in 1..Len(packages) |->
     <<"package ">>
       \o (IF tuples THEN packages[i][1] \o <<" ">> \o packages[i][2] ELSE packages[i])
       \o (IF present THEN <<" already installed">> ELSE <<" is not installed">>)]

-----------------------------------------------------------------------------
(* Python containers *)

\* The elements of a set of naturals in increasing order.
RECURSIVE Sorted(_)
Sorted(S) ==
  IF S = {} THEN <<>>
  ELSE LET m == CHOOSE x \in S : \A y \in S : x <= y IN <<m>> \o Sorted(S \ {m})

\* Every package parsed, in list order.
parse_all(packages, version_join, latest) ==
  [i \in 1..Len(packages) |-> parse_package_version(packages[i], version_join, latest)]

\* Keys of a dict filled from parsed in list order: first insertion fixes the place.
dict_keys(parsed) ==
  LET first == {i \in 1..Len(parsed) : \A j \in 1..(i - 1) : parsed[j][1] # parsed[i][1]}
      idx == Sorted(first)
  IN [k \in 1..Len(idx) |-> parsed[idx[k]][1]]

\* desired_packages[package_name] = package_version: the last assignment stays.
dict_last_mut_first(parsed, package_name) ==
  parsed[CHOOSE i \in 1..Len(parsed) :
           /\ parsed[i][1] = package_name
           /\ \A j \in 1..Len(parsed) : parsed[j][1] = package_name => i <= j][2]

dict_last(parsed, package_name) ==
  parsed[Max({i \in 1..Len(parsed) : parsed[i][1] = package_name})][2]

\* desired_packages.setdefault(package_name, set()).add(package_version)
dict_versions(parsed, package_name) ==
  {parsed[i][2] : i \in {j \in 1..Len(parsed) : parsed[j][1] = package_name}}

Names(pairs) == {pairs[i][1] : i \in 1..Len(pairs)}

\* What one reconciliation call leaves behind when it returns at once.
NoOutput_mut_raised(current_packages) ==
  [current |-> current_packages, diff |-> <<>>, upgrade |-> <<>>, noop |-> <<>>,
   diff_specs |-> <<>>, upgrade_specs |-> <<>>, commands |-> <<>>, noops |-> <<>>,
   raised |-> TRUE]

NoOutput(current_packages) ==
  [current |-> current_packages, diff |-> <<>>, upgrade |-> <<>>, noop |-> <<>>,
   diff_specs |-> <<>>, upgrade_specs |-> <<>>, commands |-> <<>>, noops |-> <<>>,
   raised |-> FALSE]

-----------------------------------------------------------------------------
(* ensure_single_packages: one name maps to at most one installed version *)

\* The branch taken for one desired name in the classification loop.
single_bucket_mut_nogate(package_name, package_version, current_packages, present, upgrade_to_latest, latest) ==
  IF package_name \notin DOMAIN current_packages THEN "diff"
  ELSE IF package_version # current_packages[package_name] /\ present THEN "upgrade"
  ELSE "noop"

single_bucket_mut_nopresent(package_name, package_version, current_packages, present, upgrade_to_latest, latest) ==
  IF package_name \notin DOMAIN current_packages THEN "diff"
  ELSE IF package_version # current_packages[package_name]
  THEN IF package_version = latest /\ ~upgrade_to_latest THEN "noop" ELSE "upgrade"
  ELSE "noop"

single_bucket(package_name, package_version, current_packages, present, upgrade_to_latest, latest) ==
  IF package_name \notin DOMAIN current_packages THEN "diff"
  ELSE IF package_version # current_packages[package_name] /\ present
  THEN IF package_version = latest /\ ~upgrade_to_latest THEN "noop" ELSE "upgrade"
  ELSE "noop"

\* The loop over desired_packages.items().  It binds desired_version and never
\* reads it: every test and every appended pair uses package_version, which the
\* parsing loop left at the version of the last package of the list.
single_classify(keys, package_version, current_packages, present, upgrade_to_latest, latest) ==
  LET bucket(k) == single_bucket(k, package_version, current_packages, present,
                                 upgrade_to_latest, latest)
      InDiff(k) == bucket(k) = "diff"
      InUpgrade(k) == bucket(k) = "upgrade"
      InNoop(k) == bucket(k) = "noop"
      pairs(ks) == [i \in 1..Len(ks) |-> <<ks[i], package_version>>]
  IN [diff |-> pairs(SelectSeq(keys, InDiff)),
      upgrade |-> pairs(SelectSeq(keys, InUpgrade)),
      noop |-> pairs(SelectSeq(keys, InNoop))]

\* The version the last pair of the list with this name carries.
PairVersion(pairs, package_name) ==
  pairs[Max({i \in 1..Len(pairs) : pairs[i][1] = package_name})][2]

\* The two closing loops: install or pop every diff pair, overwrite every upgrade.
single_mutate_mut_skip(current_packages, diff_packages, upgrade_packages, present) ==
  current_packages

single_mutate(current_packages, diff_packages, upgrade_packages, present) ==
  LET afterDiff ==
        IF present
        THEN [n \in DOMAIN current_packages \cup Names(diff_packages) |->
                IF n \in Names(diff_packages) THEN PairVersion(diff_packages, n)
                ELSE current_packages[n]]
        ELSE [n \in DOMAIN current_packages \ Names(diff_packages) |-> current_packages[n]]
  IN [n \in DOMAIN afterDiff \cup Names(upgrade_packages) |->
        IF n \in Names(upgrade_packages) THEN PairVersion(upgrade_packages, n)
        ELSE afterDiff[n]]

ensure_single_packages(packages, current_packages, present, upgrade_to_latest, install_command, uninstall_command, upgrade_command, latest, spec_version_join, command_version_join, rollup_commands) ==
  IF packages = <<>> THEN NoOutput(current_packages)
  ELSE
    LET parsed == parse_all(packages, spec_version_join, latest)
        package_version == parsed[Len(parsed)][2]
        classified == single_classify(dict_keys(parsed), package_version,
                                      current_packages, present, upgrade_to_latest,
                                      latest)
        diff_packages == IF present THEN classified.diff ELSE classified.noop
        noop_packages == IF present THEN classified.noop ELSE classified.diff
        upgrade_packages == classified.upgrade
        diff_specs == _quote_package_spec(diff_packages, command_version_join)
        upgrade_specs == _quote_package_spec(upgrade_packages, command_version_join)
        command == IF present THEN install_command ELSE uninstall_command
    IN [current |-> single_mutate(current_packages, diff_packages, upgrade_packages,
                                  present),
        diff |-> diff_packages, upgrade |-> upgrade_packages, noop |-> noop_packages,
        diff_specs |-> diff_specs, upgrade_specs |-> upgrade_specs,
        commands |-> _issue_commands(command, diff_specs, rollup_commands)
                       \o _issue_commands(upgrade_command, upgrade_specs, rollup_commands),
        noops |-> _issue_noops(noop_packages, TRUE, present),
        raised |-> ~present /\ ~(Names(diff_packages) \subseteq DOMAIN current_packages)]

-----------------------------------------------------------------------------
(* ensure_multi_packages: one name maps to a set of installed versions *)

\* current_packages.get(package_name, set())
dict_get(current_packages, package_name) ==
  IF package_name \in DOMAIN current_packages THEN current_packages[package_name] ELSE {}

multi_diff_versions_mut_all(desired_versions, current_versions) == desired_versions

multi_diff_versions(desired_versions, current_versions) ==
  desired_versions \ current_versions

multi_noop_versions_mut_none(desired_versions, current_versions) == {}

multi_noop_versions(desired_versions, current_versions) ==
  desired_versions \cap current_versions

\* Every list "+= [(package_name, version) for version in versions]" can build over
\* the keys in order: a set of versions is walked in any order.
RECURSIVE PairLists(_, _)
PairLists(keys, versions) ==
  IF keys = <<>> THEN {<<>>}
  ELSE {[i \in 1..Len(o) |-> <<Head(keys), o[i]>>] \o rest :
          o \in Orderings(versions[Head(keys)]), rest \in PairLists(Tail(keys), versions)}

VersionsOf(pairs, package_name) ==
  {pairs[i][2] : i \in {j \in 1..Len(pairs) : pairs[j][1] = package_name}}

\* The closing loop: setdefault(name, set()).add(version) or get(name, set()).discard(version).
multi_mutate_mut_replace(current_packages, diff_packages, present) ==
  IF present
  THEN [n \in DOMAIN current_packages \cup Names(diff_packages) |->
          IF n \in Names(diff_packages) THEN VersionsOf(diff_packages, n)
          ELSE current_packages[n]]
  ELSE [n \in DOMAIN current_packages |->
          current_packages[n] \ VersionsOf(diff_packages, n)]

multi_mutate_mut_clear(current_packages, diff_packages, present) ==
  IF present
  THEN [n \in DOMAIN current_packages \cup Names(diff_packages) |->
          dict_get(current_packages, n) \cup VersionsOf(diff_packages, n)]
  ELSE [n \in DOMAIN current_packages |->
          IF n \in Names(diff_packages) THEN {} ELSE current_packages[n]]

multi_mutate_mut_dropkey(current_packages, diff_packages, present) ==
  IF present
  THEN [n \in DOMAIN current_packages \cup Names(diff_packages) |->
          dict_get(current_packages, n) \cup VersionsOf(diff_packages, n)]
  ELSE [n \in {k \in DOMAIN current_packages :
                 current_packages[k] \ VersionsOf(diff_packages, k) # {}} |->
          current_packages[n] \ VersionsOf(diff_packages, n)]

multi_mutate(current_packages, diff_packages, present) ==
  IF present
  THEN [n \in DOMAIN current_packages \cup Names(diff_packages) |->
          dict_get(current_packages, n) \cup VersionsOf(diff_packages, n)]
  ELSE [n \in DOMAIN current_packages |->
          current_packages[n] \ VersionsOf(diff_packages, n)]

\* The set of results the call can have (one per iteration order of the version sets).
ensure_multi_packages(packages, current_packages, present, install_command, uninstall_command, latest, spec_version_join, command_version_join, rollup_commands) ==
  IF packages = <<>> THEN {NoOutput(current_packages)}
  ELSE
    LET parsed == parse_all(packages, spec_version_join, latest)
        keys == dict_keys(parsed)
        diff_versions == [n \in Range(keys) |->
                            multi_diff_versions(dict_versions(parsed, n),
                                                dict_get(current_packages, n))]
        noop_versions == [n \in Range(keys) |->
                            multi_noop_versions(dict_versions(parsed, n),
                                                dict_get(current_packages, n))]
        command == IF present THEN install_command ELSE uninstall_command
        result(d, n) ==
          LET diff_packages == IF present THEN d ELSE n
              noop_packages == IF present THEN n ELSE d
              diff_specs == _quote_package_spec(diff_packages, command_version_join)
          IN [current |-> multi_mutate(current_packages, diff_packages, present),
              diff |-> diff_packages, upgrade |-> <<>>, noop |-> noop_packages,
              diff_specs |-> diff_specs, upgrade_specs |-> <<>>,
              commands |-> _issue_commands(command, diff_specs, rollup_commands),
              noops |-> _issue_noops(noop_packages, TRUE, present),
              raised |-> FALSE]
    IN {result(d, n) : d \in PairLists(keys, diff_versions),
                       n \in PairLists(keys, noop_versions)}

-----------------------------------------------------------------------------
(* ensure_versionless_packages: membership only *)

versionless_diff_mut_all(desired_packages, current_packages) == desired_packages

versionless_diff(desired_packages, current_packages) ==
  desired_packages \ current_packages

versionless_noop(desired_packages, current_packages) ==
  desired_packages \cap current_packages

\* current_packages.update(diff) or current_packages.difference_update(diff)
versionless_mutate_mut_skip(current_packages, diff_packages, present) == current_packages

versionless_mutate_mut_replace(current_packages, diff_packages, present) ==
  IF present THEN diff_packages
  ELSE current_packages \ diff_packages

versionless_mutate(current_packages, diff_packages, present) ==
  IF present THEN current_packages \cup diff_packages
  ELSE current_packages \ diff_packages

ensure_versionless_packages(packages, current_packages, present, install_command, uninstall_command, rollup_commands) ==
  IF packages = <<>> THEN {NoOutput(current_packages)}
  ELSE
    LET desired_packages == Range(packages)
        forward_diff == versionless_diff(desired_packages, current_packages)
        forward_noop == versionless_noop(desired_packages, current_packages)
        diff_packages == IF present THEN forward_diff ELSE forward_noop
        noop_packages == IF present THEN forward_noop ELSE forward_diff
        command == IF present THEN install_command ELSE uninstall_command
        result(d, n) ==
          LET diff_specs == [i \in 1..Len(d) |-> shlex_quote(d[i])]
          IN [current |-> versionless_mutate(current_packages, diff_packages, present),
              diff |-> d, upgrade |-> <<>>, noop |-> n,
              diff_specs |-> diff_specs, upgrade_specs |-> <<>>,
              commands |-> _issue_commands(command, diff_specs, rollup_commands),
              noops |-> _issue_noops(n, FALSE, present),
              raised |-> FALSE]
    IN {result(d, n) : d \in Orderings(diff_packages), n \in Orderings(noop_packages)}

-----------------------------------------------------------------------------
(* One run: a snapshot per resource kind, threaded through successive calls *)

VARIABLES
  kind,       \* which variant the run's snapshot belongs to
  current,    \* current_packages, mutated in place by every call
  call,       \* arguments of the call whose results are at hand, NoCall if none
  out,        \* buckets, rendered specs, commands and noops of that call
  pre,        \* current_packages as that call found it
  rel,        \* how that call relates to the one right before it
  pre2,       \* current_packages as the call right before found it
  prevOut,    \* what the call right before produced
  installed,  \* items an install command named before that call, not uninstalled since
  removed     \* items an uninstall command named before that call, not installed since

vars == <<kind, current, call, out, pre, rel, pre2, prevOut, installed, removed>>

NoCall == [packages |-> <<>>, present |-> TRUE, upgrade_to_latest |-> FALSE, rollup_commands |-> FALSE, made |-> FALSE]

PackageNames == {<<"a">>, <<"b">>}
Versions == {<<"1">>, <<"2">>}
StrEq == <<"=">>
StrSpace == <<" ">>
StrLatest == <<"l", "a", "t", "e", "s", "t">>

\* "name" and "name=version"
SpecTokens == {<<"a">>, <<"a", "=", "1">>, <<"b", "=", "2">>}

Lists(S) == UNION {[1..k -> S] : k \in 0..MaxLen}

\* Snapshots a fact can hand over.
SingleSnapshots == UNION {[D -> Versions] : D \in SUBSET PackageNames}
MultiSnapshots == UNION {[D -> SUBSET Versions] : D \in SUBSET PackageNames}
VersionlessSnapshots == SUBSET PackageNames

\* The command prefixes the operations pass (pipx.applications, asdf.packages,
\* asdf.plugins).
install_command(k) ==
  CASE k = "single" -> <<"pipx install">>
    [] k = "multi" -> <<"asdf install">>
    [] OTHER -> <<"asdf plugin add">>

uninstall_command(k) ==
  CASE k = "single" -> <<"pipx uninstall">>
    [] k = "multi" -> <<"asdf uninstall">>
    [] OTHER -> <<"asdf plugin remove">>

upgrade_command == <<"pipx upgrade">>

\* The items a bucket holds: names (single, versionless) or (name, version) pairs.
Items(k, bucket) == IF k = "single" THEN Names(bucket) ELSE Range(bucket)

\* The argument tuples of one call.
Args(tokens, upgrades) ==
  {[packages |-> p, present |-> pr, upgrade_to_latest |-> u, rollup_commands |-> ro, made |-> TRUE] :
     p \in Lists(tokens), pr \in BOOLEAN, u \in upgrades, ro \in BOOLEAN}

\* The calls followed from here: any call when no results are at hand, otherwise
\* the same call again or the same call with present flipped (any other call
\* comes after Forget).
Following(all) ==
  IF call.made THEN {call, [call EXCEPT !.present = ~@]} ELSE all

Init ==
  /\ kind \in {"single", "multi", "versionless"}
  /\ current \in (CASE kind = "single" -> SingleSnapshots
                    [] kind = "multi" -> MultiSnapshots
                    [] OTHER -> VersionlessSnapshots)
  /\ call = NoCall
  /\ out = NoOutput(current)
  /\ pre = current
  /\ rel = "none"
  /\ pre2 = current
  /\ prevOut = NoOutput(current)
  /\ installed = {}
  /\ removed = {}

\* The history once the commands of the call at hand are counted in.
InstalledAfter ==
  IF call.present THEN installed \cup Items(kind, out.diff)
  ELSE installed \ Items(kind, out.diff)

RemovedAfter ==
  IF call.present THEN removed \ Items(kind, out.diff)
  ELSE removed \cup Items(kind, out.diff)

\* The bookkeeping every call shares: r is what the call produced for args.
Returned(args, r) ==
  /\ call' = args
  /\ out' = r
  /\ current' = r.current
  /\ pre' = current
  /\ rel' = (IF ~call.made THEN "new" ELSE IF args = call THEN "repeat" ELSE "flip")
  /\ pre2' = pre
  /\ prevOut' = out
  /\ installed' = InstalledAfter
  /\ removed' = RemovedAfter
  /\ UNCHANGED kind

\* pipx.applications: ensure_single_packages with pipx's commands and the defaults
\* latest="", spec_version_join="=", command_version_join="=".
SinglePackages ==
  /\ kind = "single"
  /\ \E args \in Following(Args(SpecTokens, BOOLEAN)) :
       Returned(args,
                ensure_single_packages(args.packages, current, args.present,
                                       args.upgrade_to_latest, install_command(kind),
                                       uninstall_command(kind), upgrade_command, <<>>,
                                       StrEq, StrEq, args.rollup_commands))

\* asdf.packages: ensure_multi_packages with latest="latest", spec_version_join="=",
\* command_version_join=" ".
MultiPackages ==
  /\ kind = "multi"
  /\ \E args \in Following(Args(SpecTokens, {FALSE})) :
       \E r \in ensure_multi_packages(args.packages, current, args.present,
                                      install_command(kind), uninstall_command(kind),
                                      StrLatest, StrEq, StrSpace, args.rollup_commands) :
         Returned(args, r)

\* asdf.plugins: ensure_versionless_packages.
VersionlessPackages ==
  /\ kind = "versionless"
  /\ \E args \in Following(Args(PackageNames, {FALSE})) :
       \E r \in ensure_versionless_packages(args.packages, current, args.present,
                                            install_command(kind),
                                            uninstall_command(kind),
                                            args.rollup_commands) :
         Returned(args, r)

\* The operation that made the call ends: its results are dropped, the snapshot
\* and the history stay for the next operation.
Forget ==
  /\ call.made
  /\ call' = NoCall
  /\ out' = NoOutput(current)
  /\ pre' = current
  /\ rel' = "none"
  /\ pre2' = current
  /\ prevOut' = NoOutput(current)
  /\ installed' = InstalledAfter
  /\ removed' = RemovedAfter
  /\ UNCHANGED <<kind, current>>

\* Desired lists one element longer than MaxLen: with two package names such a
\* list always names one package twice, and can name another package after it.
DuplicateArgs ==
  {[packages |-> p, present |-> pr, upgrade_to_latest |-> u, rollup_commands |-> ro,
    made |-> TRUE] :
     p \in [1..(MaxLen + 1) -> SpecTokens], pr \in BOOLEAN, u \in BOOLEAN, ro \in BOOLEAN}

\* pipx.applications called with such a list.
SingleDuplicates ==
  /\ kind = "single"
  /\ \E args \in Following(DuplicateArgs) :
       Returned(args,
                ensure_single_packages(args.packages, current, args.present,
                                       args.upgrade_to_latest, install_command(kind),
                                       uninstall_command(kind), upgrade_command, <<>>,
                                       StrEq, StrEq, args.rollup_commands))

Next == SinglePackages \/ MultiPackages \/ VersionlessPackages \/ Forget

Spec == Init /\ [][Next]_vars

\* Runs of the single-version variant on lists that repeat a name.
DuplicateInit == Init /\ kind = "single"
DuplicateNext == SingleDuplicates \/ Forget
DuplicateSpec == DuplicateInit /\ [][DuplicateNext]_vars

-----------------------------------------------------------------------------
(* IpsetEntries.equivalent_entries *)

\* Python's None; no field value of the model is the text "None".
None == "None"

\* dict.get(attr): None for a missing key.
dict_get_attr(d, attr) == IF attr \in DOMAIN d THEN d[attr] ELSE None

\* "if val is None: val = ''"
none_to_empty_mut_keep(val) == val

none_to_empty(val) == IF val = None THEN "" ELSE val

EntryAttrs == {"setname", "entry", "extras"}

equivalent_entries(lhs, rhs) ==
  \A attr \in EntryAttrs :
    none_to_empty(dict_get_attr(lhs, attr)) = none_to_empty(dict_get_attr(rhs, attr))

-----------------------------------------------------------------------------
(* The pure functions applied to inputs drawn at the start *)

\* Longest name and longest version of a parsed token.
MaxText == 2

Texts(alphabet) == UNION {[1..k -> alphabet] : k \in 0..MaxText}

StrEqEq == <<"=", "=">>

\* A token is a name alone, or a name, the join and a version.
ParseInputs ==
  {[name |-> n, version |-> v, joined |-> j, version_join |-> vj, latest |-> l,
    made |-> FALSE] :
     n \in Texts({"a", "="}), v \in Texts({"1", "="}), j \in BOOLEAN,
     vj \in {StrEq, StrEqEq}, l \in {<<>>, StrLatest}}

Token(c) == IF c.joined THEN c.name \o c.version_join \o c.version ELSE c.name

\* Names and versions with and without characters the shell treats specially.
QuotePairs ==
  {<<n, v>> : n \in {<<"a">>, <<"a", " ", "b">>, <<"'">>},
              v \in {<<>>, <<"1">>, <<"1", " ", "0">>}}

QuoteInputs ==
  {[packages |-> p, command_version_join |-> cj, made |-> FALSE] :
     p \in Lists(QuotePairs), cj \in {StrSpace, StrEq, <<>>}}

\* Records as IpsetEntries.process builds them, with keys missing, None or empty,
\* and with a key that is none of the three compared.
EntryRecords ==
  UNION {[D -> {None, "", "s", "e", "c", "x"}] : D \in SUBSET (EntryAttrs \cup {"comment"})}

EntryInputs ==
  LET ok(r) ==
        /\ "setname" \in DOMAIN r => r["setname"] = "s"
        /\ "entry" \in DOMAIN r /\ r["entry"] \in {"", "e"}
        /\ "extras" \in DOMAIN r => r["extras"] \in {None, "", "c"}
        /\ "comment" \in DOMAIN r => r["comment"] = "x"
      records == {r \in EntryRecords : ok(r)}
  IN {[lhs |-> l, rhs |-> r, third |-> t, made |-> FALSE] :
        l \in records, r \in records, t \in records}

PureInit ==
  /\ kind \in {"parse_package_version", "_quote_package_spec", "equivalent_entries"}
  /\ call \in CASE kind = "parse_package_version" -> ParseInputs
                [] kind = "_quote_package_spec" -> QuoteInputs
                [] OTHER -> EntryInputs
  /\ out = <<>>
  /\ current = <<>>
  /\ pre = <<>>
  /\ rel = "none"
  /\ pre2 = <<>>
  /\ prevOut = <<>>
  /\ installed = {}
  /\ removed = {}

Applied(result) ==
  /\ ~call.made
  /\ call' = [call EXCEPT !.made = TRUE]
  /\ out' = result
  /\ UNCHANGED <<kind, current, pre, rel, pre2, prevOut, installed, removed>>

Parse ==
  /\ kind = "parse_package_version"
  /\ Applied(parse_package_version(Token(call), call.version_join, call.latest))

Quote ==
  /\ kind = "_quote_package_spec"
  /\ Applied(_quote_package_spec(call.packages, call.command_version_join))

Equivalent ==
  /\ kind = "equivalent_entries"
  /\ Applied([ll |-> equivalent_entries(call.lhs, call.lhs),
              lr |-> equivalent_entries(call.lhs, call.rhs),
              rl |-> equivalent_entries(call.rhs, call.lhs),
              rt |-> equivalent_entries(call.rhs, call.third),
              lt |-> equivalent_entries(call.lhs, call.third)])

PureNext == Parse \/ Quote \/ Equivalent

PureSpec == PureInit /\ [][PureNext]_vars

-----------------------------------------------------------------------------
(* operations/ipset.py: ipset_set and ipset_entry *)

\* A command or noop message built by an f-string is the list of its
\* space-separated pieces, the interpolated values among them.

\* d[key] = value
dict_set_mut_skip(d, key, value) == d

dict_set(d, key, value) ==
  [k \in DOMAIN d \cup {key} |-> IF k = key THEN value ELSE d[k]]

\* d.pop(key)
dict_pop(d, key) == [k \in DOMAIN d \ {key} |-> d[k]]

\* What one ipset operation leaves behind.
IpsetResult(commands, noops, snapshot) ==
  [commands |-> commands, noops |-> noops, current |-> snapshot]

\* The metadata ipset_set stores for a set it has just created.
created_set(set_name, set_type, extras) ==
  [name |-> set_name, type |-> set_type, header |-> extras, references |-> 0,
   num_entries |-> 0]

ipset_set(sets, set_name, set_type, extras, present) ==
  IF set_name \in DOMAIN sets
  THEN IF present
       THEN IpsetResult(<<>>, <<<<"ipset", set_name, "exists">>>>, sets)
       ELSE IpsetResult(<<<<"ipset", "destroy", set_name>>>>, <<>>,
                        dict_pop(sets, set_name))
  ELSE IF present
       THEN IpsetResult(<<<<"ipset", "create", set_name, set_type, extras>>>>, <<>>,
                        dict_set(sets, set_name, created_set(set_name, set_type, extras)))
       ELSE IpsetResult(<<>>, <<<<"ipset", set_name, "does not exist">>>>, sets)

ipset_entry(set_entries, set_name, entry, extras, present) ==
  LET set_entry == [setname |-> set_name, entry |-> entry, extras |-> extras]
  IN IF entry \in DOMAIN set_entries
     THEN IF present
          THEN IF ~equivalent_entries(set_entry, set_entries[entry])
               THEN IpsetResult(<<<<"ipset", "add", set_name, entry, extras, "-exist">>>>,
                                <<>>, dict_set(set_entries, entry, set_entry))
               ELSE IpsetResult(<<>>,
                                <<<<"ipset entry", entry, "already in", set_name>>>>,
                                set_entries)
          ELSE IpsetResult(<<<<"ipset", "del", set_name, entry>>>>, <<>>,
                           dict_pop(set_entries, entry))
     ELSE IF present
          THEN IpsetResult(<<<<"ipset", "add", set_name, entry, extras>>>>, <<>>,
                           dict_set(set_entries, entry, set_entry))
          ELSE IpsetResult(<<>>,
                           <<<<"ipset entry", entry, "already not in", set_name>>>>,
                           set_entries)

SetNames == {"s", "t"}
SetTypes == {"hash:net", "hash:ip"}
SetExtras == {"", "comment"}
EntryNames == {"10.0.0.0/8", "172.16.0.0/12"}
EntryExtras == {"", "timeout 60"}

\* The IpsetSet fact: set name -> metadata as IpsetSet.process parses it.
SetSnapshots ==
  LET listed(n) == {[name |-> n, type |-> t, revision |-> 6, header |-> h,
                     memory_size |-> 958, references |-> 0, num_entries |-> 0] :
                      t \in SetTypes, h \in SetExtras}
  IN UNION {{f \in [D -> UNION {listed(n) : n \in D}] : \A n \in D : f[n].name = n} :
              D \in SUBSET SetNames}

\* The IpsetEntries fact of one set: entry -> the groups of its "add" line.
EntriesOf(set_name) ==
  UNION {{f \in [D -> [setname : {set_name}, entry : D, extras : EntryExtras]] :
            \A e \in D : f[e].entry = e} : D \in SUBSET EntryNames}

\* One IpsetEntries fact per set name.
EntrySnapshots ==
  {f \in [SetNames -> UNION {EntriesOf(n) : n \in SetNames}] :
     \A n \in SetNames : f[n] \in EntriesOf(n)}

SetArgs ==
  {[set_name |-> n, set_type |-> t, extras |-> x, present |-> p, made |-> TRUE] :
     n \in SetNames, t \in SetTypes, x \in SetExtras, p \in BOOLEAN}

EntryArgs ==
  {[set_name |-> n, entry |-> e, extras |-> x, present |-> p, made |-> TRUE] :
     n \in SetNames, e \in EntryNames, x \in EntryExtras, p \in BOOLEAN}

IpsetNoCall == [present |-> TRUE, made |-> FALSE]

IpsetNoOutput(snapshot) == IpsetResult(<<>>, <<>>, snapshot)

IpsetInit ==
  /\ kind \in {"ipset_set", "ipset_entry"}
  /\ current \in (IF kind = "ipset_set" THEN SetSnapshots ELSE EntrySnapshots)
  /\ call = IpsetNoCall
  /\ out = IpsetNoOutput(current)
  /\ pre = current
  /\ rel = "none"
  /\ pre2 = current
  /\ prevOut = IpsetNoOutput(current)
  /\ installed = {}
  /\ removed = {}

\* A call returned r and left the snapshot new_current.
IpsetReturned(args, r, new_current) ==
  /\ call' = args
  /\ out' = r
  /\ current' = new_current
  /\ pre' = current
  /\ rel' = (IF ~call.made THEN "new" ELSE IF args = call THEN "repeat" ELSE "flip")
  /\ pre2' = pre
  /\ prevOut' = out
  /\ UNCHANGED <<kind, installed, removed>>

IpsetSet ==
  /\ kind = "ipset_set"
  /\ \E args \in Following(SetArgs) :
       LET r == ipset_set(current, args.set_name, args.set_type, args.extras, args.present)
       IN IpsetReturned(args, r, r.current)

IpsetEntry ==
  /\ kind = "ipset_entry"
  /\ \E args \in Following(EntryArgs) :
       LET r == ipset_entry(current[args.set_name], args.set_name, args.entry,
                            args.extras, args.present)
       IN IpsetReturned(args, r, [current EXCEPT ![args.set_name] = r.current])

IpsetForget ==
  /\ call.made
  /\ call' = IpsetNoCall
  /\ out' = IpsetNoOutput(current)
  /\ pre' = current
  /\ rel' = "none"
  /\ pre2' = current
  /\ prevOut' = IpsetNoOutput(current)
  /\ UNCHANGED <<kind, current, installed, removed>>

IpsetNext == IpsetSet \/ IpsetEntry \/ IpsetForget

IpsetSpec == IpsetInit /\ [][IpsetNext]_vars

-----------------------------------------------------------------------------
(* facts/iptables.py: parse_iptables_rule *)

\* A text is the list of its whitespace-separated words: ' '.join(args) followed
\* by line.split() gives the words back, and an argument that is None or '' is a
\* text without words.

IPTABLES_ARGS ==
  ("-A" :> "chain") @@ ("-D" :> "chain") @@ ("-j" :> "jump") @@ ("-p" :> "protocol")
    @@ ("-s" :> "source") @@ ("-d" :> "destination") @@ ("-i" :> "in_interface")
    @@ ("-o" :> "out_interface") @@ ("--log-prefix" :> "log_prefix")
    @@ ("--to-destination" :> "to_destination") @@ ("--to-source" :> "to_source")
    @@ ("--to-ports" :> "to_ports") @@ ("--reject-with" :> "reject_with")

\* The words of the model that start with '-' (bit.startswith('-')).
DashWords ==
  DOMAIN IPTABLES_ARGS \cup {"-I", "-t", "-m", "--dport", "--sport", "--syn"}

\* The inner add_args of parse_iptables_rule: file the arguments of the open key.
parse_add_args(st) ==
  IF st.key \in DOMAIN IPTABLES_ARGS
  THEN dict_set(st.definition,
                IF st.not_arg THEN "not_" \o IPTABLES_ARGS[st.key]
                ELSE IPTABLES_ARGS[st.key],
                st.args)
  ELSE dict_set(st.definition, "extras",
                (IF "extras" \in DOMAIN st.definition THEN st.definition["extras"] ELSE {})
                  \cup {<<st.key>>, st.args})

\* The loop over the bits; key = "" stands for None.
RECURSIVE parse_bits(_, _)
parse_bits(bits, st) ==
  IF bits = <<>> THEN st
  ELSE LET bit == Head(bits)
           filed == IF st.key # "" THEN parse_add_args(st) ELSE st.definition
           args == IF st.key # "" THEN <<>> ELSE st.args
       IN parse_bits(Tail(bits),
            IF bit = "!"
            THEN [definition |-> filed, key |-> "", args |-> args, not_arg |-> TRUE]
            ELSE IF bit \in DashWords
            THEN [definition |-> filed, key |-> bit, args |-> args,
                  not_arg |-> IF st.key # "" THEN FALSE ELSE st.not_arg]
            ELSE [st EXCEPT !.args = Append(@, bit)])

parse_iptables_rule(line) ==
  LET st == parse_bits(line, [definition |-> <<>>, key |-> "", args |-> <<>>,
                              not_arg |-> FALSE])
      definition == IF st.key # "" THEN parse_add_args(st) ELSE st.definition
  IN IF "protocol" \in DOMAIN definition
     THEN dict_set(definition, "extras",
                   (IF "extras" \in DOMAIN definition THEN definition["extras"] ELSE {})
                     \cup {<<"-m">>, definition["protocol"]})
     ELSE definition

-----------------------------------------------------------------------------
(* operations/iptables.py: rule *)

\* Whether the words of sub occur in s side by side ("sub in s").
ContainsWords(s, sub) ==
  \E i \in 0..(Len(s) - Len(sub)) : SubSeq(s, i + 1, i + Len(sub)) = sub

\* The addresses of the model that already carry a mask ('/' in cidr).
MaskedAddresses == {"10.1.0.0/16", "10.2.0.0/16"}

_normalize_cidr(cidr, version) ==
  IF version = 4 /\ cidr # <<>> /\ cidr[1] \notin MaskedAddresses
  THEN <<cidr[1] \o "/32">>
  ELSE IF version = 6 /\ cidr # <<>> /\ cidr[1] \notin MaskedAddresses
  THEN <<cidr[1] \o "/128">>
  ELSE cidr

\* The inner add_args of rule: the flags and the argument, or nothing.
rule_add_args(arg_flags, arg) == IF arg = <<>> THEN <<>> ELSE arg_flags \o arg

\* extras after the port shortcuts and the protocol module were added.
rule_extras(c) ==
  LET with_dport == IF c.destination_port # <<>>
                    THEN c.extras \o <<"--dport">> \o c.destination_port ELSE c.extras
      with_sport == IF c.source_port # <<>>
                    THEN with_dport \o <<"--sport">> \o c.source_port ELSE with_dport
  IN IF c.protocol # <<>> /\ ~ContainsWords(with_sport, <<"-m">> \o c.protocol)
     THEN with_sport \o <<"-m">> \o c.protocol
     ELSE with_sport

\* The six tests that raise OperationError.
rule_invalid_mut_nolog(c) ==
  \/ c.protocol = <<>> /\ (c.destination_port # <<>> \/ c.source_port # <<>>)
  \/ c.to_destination # <<>> /\ (c.table # <<"nat">> \/ c.jump # <<"DNAT">>)
  \/ c.to_source # <<>> /\ (c.table # <<"nat">> \/ c.jump # <<"SNAT">>)
  \/ c.to_ports # <<>> /\ (c.table # <<"nat">> \/ c.jump # <<"REDIRECT">>)
  \/ c.reject_with # <<>> /\ c.jump # <<"REJECT">>

rule_invalid(c) ==
  \/ c.protocol = <<>> /\ (c.destination_port # <<>> \/ c.source_port # <<>>)
  \/ c.to_destination # <<>> /\ (c.table # <<"nat">> \/ c.jump # <<"DNAT">>)
  \/ c.to_source # <<>> /\ (c.table # <<"nat">> \/ c.jump # <<"SNAT">>)
  \/ c.to_ports # <<>> /\ (c.table # <<"nat">> \/ c.jump # <<"REDIRECT">>)
  \/ c.log_prefix # <<>> /\ c.jump # <<"LOG">>
  \/ c.reject_with # <<>> /\ c.jump # <<"REJECT">>

\* The words after "iptables -t <table>": action, chain and every argument that
\* add_args is called for.
rule_args(c) ==
  LET action == IF c.present THEN (IF c.append THEN "-A" ELSE "-I") ELSE "-D"
  IN <<action>> \o c.chain
       \o rule_add_args(<<"-p">>, c.protocol)
       \o rule_add_args(<<"-s">>, _normalize_cidr(c.source, c.version))
       \o rule_add_args(<<"-i">>, c.in_interface)
       \o rule_add_args(<<"-o">>, c.out_interface)
       \o rule_add_args(<<"!", "-p">>, c.not_protocol)
       \o rule_add_args(<<"!", "-s">>, _normalize_cidr(c.not_source, c.version))
       \o rule_add_args(<<"!", "-i">>, c.not_in_interface)
       \o rule_add_args(<<"!", "-o">>, c.not_out_interface)
       \o rule_add_args(<<>>, rule_extras(c))
       \o rule_add_args(<<"-j">>, c.jump)
       \o rule_add_args(<<"--log-prefix">>, c.log_prefix)
       \o rule_add_args(<<"--to-destination">>, c.to_destination)
       \o rule_add_args(<<"--to-source">>, c.to_source)
       \o rule_add_args(<<"--to-ports">>, c.to_ports)
       \o rule_add_args(<<"--reject-with">>, c.reject_with)

\* rules.remove(definition): the first equal element goes.
list_remove(rules, definition) ==
  LET i == CHOOSE k \in 1..Len(rules) :
             rules[k] = definition /\ \A j \in 1..(k - 1) : rules[j] # definition
  IN SubSeq(rules, 1, i - 1) \o SubSeq(rules, i + 1, Len(rules))

RuleResult(commands, noops, raised, rules) ==
  [commands |-> commands, noops |-> noops, raised |-> raised, current |-> rules]

rule(rules, c) ==
  IF rule_invalid(c) THEN RuleResult(<<>>, <<>>, TRUE, rules)
  ELSE LET args == rule_args(c)
           definition == parse_iptables_rule(args)
           command == <<IF c.version = 4 THEN "iptables" ELSE "ip6tables", "-t">>
                        \o c.table \o args
       IN IF \E i \in 1..Len(rules) : rules[i] = definition
          THEN IF c.present
               THEN RuleResult(<<>>, <<<<"iptables">> \o c.chain \o <<"rule exists">>>>,
                               FALSE, rules)
               ELSE RuleResult(<<command>>, <<>>, FALSE, list_remove(rules, definition))
          ELSE IF c.present
               THEN RuleResult(<<command>>, <<>>, FALSE, Append(rules, definition))
               ELSE RuleResult(<<>>,
                               <<<<"iptables">> \o c.chain \o <<"rule does not exists">>>>,
                               FALSE, rules)

-----------------------------------------------------------------------------
(* One run of iptables.rule against the rules fact of its table *)

\* Most arguments of one call that differ from the plainest call.
MaxOptions == 2

Jumps == {<<"ACCEPT">>, <<"DNAT">>, <<"SNAT">>, <<"REDIRECT">>, <<"LOG">>, <<"REJECT">>}
Tables == {<<"filter">>, <<"nat">>}

\* The plainest call: chain and jump, every other argument at its default.
RuleBase(jump, table, present) ==
  [chain |-> <<"INPUT">>, jump |-> jump, present |-> present, table |-> table,
   append |-> TRUE, version |-> 4,
   protocol |-> <<>>, not_protocol |-> <<>>, source |-> <<>>, not_source |-> <<>>,
   destination |-> <<>>, not_destination |-> <<>>,
   in_interface |-> <<>>, not_in_interface |-> <<>>,
   out_interface |-> <<>>, not_out_interface |-> <<>>,
   to_destination |-> <<>>, to_source |-> <<>>, to_ports |-> <<>>,
   log_prefix |-> <<>>, reject_with |-> <<>>,
   destination_port |-> <<>>, source_port |-> <<>>, extras |-> <<>>,
   made |-> TRUE]

\* The other value each argument can take.
RuleOptions ==
  [chain |-> <<"FORWARD">>, append |-> FALSE, version |-> 6,
   protocol |-> <<"tcp">>, not_protocol |-> <<"udp">>,
   source |-> <<"10.0.0.1">>, not_source |-> <<"10.0.0.2">>,
   destination |-> <<"10.1.0.0/16">>, not_destination |-> <<"10.2.0.0/16">>,
   in_interface |-> <<"eth0">>, not_in_interface |-> <<"eth1">>,
   out_interface |-> <<"eth2">>, not_out_interface |-> <<"eth3">>,
   to_destination |-> <<"8.8.4.4:8080">>, to_source |-> <<"1.2.3.4">>,
   to_ports |-> <<"8080">>, log_prefix |-> <<"fw">>,
   reject_with |-> <<"icmp-port-unreachable">>,
   destination_port |-> <<"22">>, source_port |-> <<"1024">>,
   extras |-> <<"-m", "tcp", "--syn">>]

\* The sets of at most MaxOptions argument names.
OptionSets ==
  UNION {{Range(f) : f \in [1..k -> DOMAIN RuleOptions]} : k \in 0..MaxOptions}

RuleArgs ==
  {[f \in DOMAIN b |-> IF f \in S THEN RuleOptions[f] ELSE b[f]] :
     b \in {RuleBase(j, t, p) : j \in Jumps, t \in Tables, p \in BOOLEAN},
     S \in OptionSets}

\* Lines of iptables-save, as IptablesRules.process hands them to the parser.
SavedLines ==
  {<<"-A", "INPUT", "-j", "ACCEPT">>,
   <<"-A", "INPUT", "-p", "tcp", "-m", "tcp", "--dport", "22", "-j", "ACCEPT">>,
   <<"-A", "INPUT", "-j", "DNAT", "--to-destination", "8.8.4.4:8080">>}

\* The IptablesRules fact: no rule, or one parsed line.
RuleSnapshots == {<<>>} \cup {<<parse_iptables_rule(line)>> : line \in SavedLines}

RuleNoCall == [present |-> TRUE, made |-> FALSE]

IptablesInit ==
  /\ kind = "iptables.rule"
  /\ current \in RuleSnapshots
  /\ call = RuleNoCall
  /\ out = RuleResult(<<>>, <<>>, FALSE, current)
  /\ pre = current
  /\ rel = "none"
  /\ pre2 = current
  /\ prevOut = RuleResult(<<>>, <<>>, FALSE, current)
  /\ installed = {}
  /\ removed = {}

\* One call of iptables.rule: any call first, then the same call again or the
\* same call with present flipped (the table and version, hence the fact, stay).
IptablesRule ==
  /\ kind = "iptables.rule"
  /\ \E args \in Following(RuleArgs) :
       LET r == rule(current, args)
       IN /\ call' = args
          /\ out' = r
          /\ current' = r.current
          /\ pre' = current
          /\ rel' = (IF ~call.made THEN "new" ELSE IF args = call THEN "repeat" ELSE "flip")
          /\ pre2' = pre
          /\ prevOut' = out
          /\ UNCHANGED <<kind, installed, removed>>

IptablesNext == IptablesRule

IptablesSpec == IptablesInit /\ [][IptablesNext]_vars

-----------------------------------------------------------------------------
(* operations/iptables.py: chain *)

\* The chains fact maps a chain name to its policy; policy = "" stands for None.
\* The function never writes to the fact.
chain(chains, c) ==
  LET command == <<IF c.version = 4 THEN "iptables" ELSE "ip6tables", "-t", c.table>>
      exists == c.chain \in DOMAIN chains
  IN IF ~c.present
     THEN IF exists
          THEN RuleResult(<<command \o <<"-X", c.chain>>>>, <<>>, FALSE, chains)
          ELSE RuleResult(<<>>, <<<<"iptables chain", c.chain, "does not exist">>>>,
                          FALSE, chains)
     ELSE LET create == IF ~exists THEN <<command \o <<"-N", c.chain>>>> ELSE <<>>
              noops == IF ~exists THEN <<>>
                       ELSE <<<<"iptables chain", c.chain, "exists">>>>
              policy == IF c.policy # "" /\ (~exists \/ chains[c.chain] # c.policy)
                        THEN <<command \o <<"-P", c.chain, c.policy>>>> ELSE <<>>
          IN RuleResult(create \o policy, noops, FALSE, chains)

ChainNames == {"INPUT", "web"}
Policies == {"ACCEPT", "DROP"}

\* The IptablesChains fact: ":NAME POLICY [..]" lines; the built-in chain shows
\* its policy and a user chain shows "-".
ChainSnapshots ==
  UNION {{f \in [D -> Policies \cup {"-"}] : \A n \in D : (f[n] = "-") <=> (n = "web")} :
           D \in SUBSET ChainNames}

ChainArgs ==
  {[chain |-> n, present |-> p, table |-> t, policy |-> po, version |-> v,
    made |-> TRUE] :
     n \in ChainNames, p \in BOOLEAN, t \in {"filter", "nat"},
     po \in Policies \cup {""}, v \in {4, 6}}

ChainInit ==
  /\ kind = "iptables.chain"
  /\ current \in ChainSnapshots
  /\ call = RuleNoCall
  /\ out = RuleResult(<<>>, <<>>, FALSE, current)
  /\ pre = current
  /\ rel = "none"
  /\ pre2 = current
  /\ prevOut = RuleResult(<<>>, <<>>, FALSE, current)
  /\ installed = {}
  /\ removed = {}

\* One call of iptables.chain: any call first, then the same call again or the
\* same call with present flipped (table and version, hence the fact, stay).
IptablesChain ==
  /\ kind = "iptables.chain"
  /\ \E args \in Following(ChainArgs) :
       LET r == chain(current, args)
       IN /\ call' = args
          /\ out' = r
          /\ current' = r.current
          /\ pre' = current
          /\ rel' = (IF ~call.made THEN "new" ELSE IF args = call THEN "repeat" ELSE "flip")
          /\ pre2' = pre
          /\ prevOut' = out
          /\ UNCHANGED <<kind, installed, removed>>

ChainNext == IptablesChain

ChainSpec == ChainInit /\ [][ChainNext]_vars

(* Legacy ensure_packages *)

\* str.lower, on the letters the desired lists use.
lower_char(ch) == CASE ch = "A" -> "a" [] ch = "B" -> "b" [] OTHER -> ch

str_lower(s) == [i \in 1..Len(s) |-> lower_char(s[i])]

\* One desired package after the version split: the string itself (is_list
\* FALSE, name holds the whole string) or the two-element list rsplit returned.
\* No version_join (None) is <<>>: nothing is split.
split_package(package, version_join) ==
  LET bits == IF version_join = <<>> THEN <<package>> ELSE rsplit(package, version_join)
  IN IF Len(bits) = 1
     THEN [is_list |-> FALSE, name |-> bits[1], version |-> <<>>]
     ELSE [is_list |-> TRUE, name |-> bits[1], version |-> bits[2]]

in_packages(pkg, packages) ==
  IF pkg.is_list
  THEN pkg.name \in DOMAIN packages /\ pkg.version \in Range(packages[pkg.name])
  ELSE pkg.name \in DOMAIN packages

\* expand_package_fact is left unset (None), so the package itself is checked.
_has_package(package, packages, match_any) ==
  LET packages_to_check == <<package>>
  IN IF match_any
     THEN \E i \in 1..Len(packages_to_check) : in_packages(packages_to_check[i], packages)
     ELSE \A i \in 1..Len(packages_to_check) : in_packages(packages_to_check[i], packages)

\* "Convert packages back to string(/version)"
join_package(package, version_join) ==
  IF package.is_list THEN package.name \o version_join \o package.version ELSE package.name

StrUnknown == <<"u", "n", "k", "n", "o", "w", "n">>

\* The loop that adds the installed packages to, or removes the uninstalled
\* ones from, current_packages, in list order.
RECURSIVE legacy_mutate(_, _, _, _)
legacy_mutate(current_packages, diff_packages, present, version_join) ==
  IF diff_packages = <<>> THEN current_packages
  ELSE LET package == Head(diff_packages)
           bits == IF version_join # <<>> THEN rsplit(package, version_join) ELSE <<package>>
           version == IF version_join # <<>> /\ Len(bits) = 2 THEN bits[2] ELSE StrUnknown
           next == IF present THEN dict_set(current_packages, bits[1], <<version>>)
                   ELSE dict_pop(current_packages, package)
       IN legacy_mutate(next, Tail(diff_packages), present, version_join)

LegacyResult(diff_packages, upgrade_packages, commands, noops, current_packages) ==
  [diff_packages |-> diff_packages, upgrade_packages |-> upgrade_packages, commands |-> commands, noops |-> noops, current |-> current_packages]

\* '{0} {1}'.format(command, ' '.join([shlex_quote(pkg) for pkg in packages]))
legacy_command(command, packages) ==
  command \o StrSpace \o Join(StrSpace, [i \in 1..Len(packages) |-> shlex_quote(packages[i])])

\* The desired list as the diff loops see it: lowercased, then split.
legacy_packages(c) ==
  [i \in 1..Len(c.packages) |->
     split_package(IF c.lower THEN str_lower(c.packages[i]) ELSE c.packages[i], c.version_join)]

\* A noop message: the package as formatted (string or list) and what follows.
legacy_noop(package, message, versions) ==
  [package |-> package, message |-> message, versions |-> versions]

ensure_packages(c, current_packages) ==
  IF c.packages_is_none THEN LegacyResult(<<>>, <<>>, <<>>, <<>>, current_packages)
  ELSE
  LET packages == legacy_packages(c)
      has(p) == _has_package(p, current_packages, ~c.present)
      diff_lists == SelectSeq(packages, LAMBDA p : IF c.present THEN ~has(p) ELSE has(p))
      upgrade_packages ==
        IF c.present
        THEN LET kept == SelectSeq(packages, LAMBDA p : has(p) /\ ~p.is_list)
             IN [i \in 1..Len(kept) |-> kept[i].name]
        ELSE <<>>
      others == SelectSeq(packages, LAMBDA p : IF c.present THEN has(p) /\ ~c.latest ELSE ~has(p))
      noops ==
        [i \in 1..Len(others) |->
           IF ~c.present THEN legacy_noop(others[i], "is not installed", <<>>)
           ELSE IF others[i].name \in DOMAIN current_packages
           THEN legacy_noop(others[i], "is installed", current_packages[others[i].name])
           ELSE legacy_noop(others[i], "is installed", <<>>)]
      diff_packages == [i \in 1..Len(diff_lists) |-> join_package(diff_lists[i], c.version_join)]
      command == IF c.present THEN <<"install">> ELSE <<"uninstall">>
      changed == IF diff_packages # <<>> THEN <<legacy_command(command, diff_packages)>> ELSE <<>>
      upgraded == IF c.latest /\ c.upgrade_command # <<>> /\ upgrade_packages # <<>>
                  THEN <<legacy_command(c.upgrade_command, upgrade_packages)>> ELSE <<>>
  IN LegacyResult(diff_packages, upgrade_packages, changed \o upgraded, noops,
                  legacy_mutate(current_packages, diff_packages, c.present, c.version_join))

-----------------------------------------------------------------------------
(* A run of legacy ensure_packages calls *)

LegacyTokens == {<<"a">>, <<"a", "=", "1">>, <<"a", "=", "2">>, <<"b">>, <<"B">>}

\* The packages fact: name -> list of installed versions.
LegacySnapshots == UNION {[D -> {<<v>> : v \in Versions}] : D \in SUBSET PackageNames}

LegacyArgs ==
  {[packages |-> p, packages_is_none |-> n, present |-> pr, latest |-> la, upgrade_command |-> up, version_join |-> vj, lower |-> lo, made |-> TRUE] :
     p \in Lists(LegacyTokens), n \in BOOLEAN, pr \in BOOLEAN, la \in BOOLEAN,
     up \in {<<>>, <<"upgrade">>}, vj \in {<<>>, StrEq}, lo \in BOOLEAN}

LegacyInit ==
  /\ kind = "legacy"
  /\ current \in LegacySnapshots
  /\ call = RuleNoCall
  /\ out = LegacyResult(<<>>, <<>>, <<>>, <<>>, current)
  /\ pre = current
  /\ rel = "none"
  /\ pre2 = current
  /\ prevOut = LegacyResult(<<>>, <<>>, <<>>, <<>>, current)
  /\ installed = {}
  /\ removed = {}

\* One call of ensure_packages on the run's snapshot: any call first, then the
\* same call again or the same call with present flipped.
LegacyEnsure ==
  /\ kind = "legacy"
  /\ \E args \in Following(LegacyArgs) :
       LET r == ensure_packages(args, current)
       IN /\ call' = args
          /\ out' = r
          /\ current' = r.current
          /\ pre' = current
          /\ rel' = (IF ~call.made THEN "new" ELSE IF args = call THEN "repeat" ELSE "flip")
          /\ pre2' = pre
          /\ prevOut' = out
          /\ UNCHANGED <<kind, installed, removed>>

LegacyNext == LegacyEnsure

LegacySpec == LegacyInit /\ [][LegacyNext]_vars

-----------------------------------------------------------------------------
(* Properties *)

\* The last call's desired list as the variant parses it.
SingleParsed == parse_all(call.packages, StrEq, <<>>)
MultiParsed == parse_all(call.packages, StrEq, StrLatest)

\* The desired items of the last call: names, or (name, version) pairs for multi.
DesiredItems ==
  CASE kind = "single" -> Names(SingleParsed)
    [] kind = "multi" -> Range(MultiParsed)
    [] OTHER -> Range(call.packages)

\* The items a snapshot holds as installed.
InstalledItems(k, snapshot) ==
  CASE k = "single" -> DOMAIN snapshot
    [] k = "multi" -> UNION {{<<n, v>> : v \in snapshot[n]} : n \in DOMAIN snapshot}
    [] OTHER -> snapshot

\* C1: a call repeated with identical arguments on the snapshot the first call
\* left behind emits no install, uninstall or upgrade command, in every variant.
C1_Idempotent == rel = "repeat" => out.commands = <<>>

C1_Witness ==
  /\ rel = "repeat"
  /\ kind = "single"
  /\ prevOut.diff # <<>>
  /\ prevOut.upgrade # <<>>
  /\ Len(prevOut.commands) >= 2

\* C2: in ensure_single_packages with present=true, every desired name absent from
\* current is put in toChange with its own parsed version, its install operand is
\* rendered from that version, and current[name] is that version afterwards.
C2_InstallUsesDesiredVersion ==
  (kind = "single" /\ call.made /\ call.present) =>
    \A n \in Names(SingleParsed) :
      n \notin DOMAIN pre =>
        LET v == dict_last(SingleParsed, n)
        IN /\ <<n, v>> \in Range(out.diff)
           /\ _quote_package_spec(<<<<n, v>>>>, StrEq)[1] \in Range(out.diff_specs)
           /\ n \in DOMAIN current
           /\ current[n] = v

\* C3: in ensure_single_packages with present=true, a desired name already in
\* current at a version other than its own desired version is upgraded (command
\* emitted, current[name] overwritten with the desired version) exactly when that
\* version is an explicit pin or upgrade_to_latest is true, and is otherwise a noop
\* with current[name] unchanged, whatever the other items of the list are.
C3_UpgradeGate ==
  (kind = "single" /\ call.made /\ call.present) =>
    \A n \in Names(SingleParsed) :
      LET v == dict_last(SingleParsed, n)
          gate == v # <<>> \/ call.upgrade_to_latest
      IN (n \in DOMAIN pre /\ pre[n] # v) =>
           /\ (n \in Names(out.upgrade)) <=> gate
           /\ gate => /\ <<n, v>> \in Range(out.upgrade)
                      /\ current[n] = v
           /\ ~gate => /\ n \in Names(out.noop)
                       /\ current[n] = pre[n]

FirstChangedAll == prevOut.noop = <<>> /\ prevOut.upgrade = <<>>

C5_BucketPartition ==
  call.made =>
    LET change == Items(kind, out.diff)
        upgrade == Items(kind, out.upgrade)
        noop == Items(kind, out.noop)
    IN /\ change \cup upgrade \cup noop = DesiredItems
       /\ change \cap upgrade = {}
       /\ change \cap noop = {}
       /\ upgrade \cap noop = {}
       /\ Len(out.diff) = Cardinality(change)
       /\ Len(out.upgrade) = Cardinality(upgrade)
       /\ Len(out.noop) = Cardinality(noop)
       /\ Len(out.diff_specs) = Len(out.diff)
       /\ Len(out.upgrade_specs) = Len(out.upgrade)
       /\ Len(out.noops) = Len(out.noop)

C5_Witness ==
  /\ call.made
  /\ kind = "multi"
  /\ Len(call.packages) = 2
  /\ out.diff # <<>>
  /\ out.noop # <<>>

\* C6: over successive calls on one snapshot, an item an earlier install command
\* named and no uninstall command has named since is not named by an install
\* command again, and likewise for uninstall commands.
C6_SharedSnapshot ==
  call.made =>
    /\ call.present => Items(kind, out.diff) \cap installed = {}
    /\ ~call.present => Items(kind, out.diff) \cap removed = {}

C6_Witness ==
  /\ call.made
  /\ call.present
  /\ DesiredItems \cap installed # {}
  /\ out.diff # <<>>
  /\ removed # {}

\* C7: in ensure_multi_packages a version in current[n] stays there across every
\* call, except a present=false call whose desired list holds the pair (n, v).
C7_MultiIndependence ==
  (kind = "multi" /\ call.made) =>
    \A n \in DOMAIN pre :
      \A v \in pre[n] :
        \/ n \in DOMAIN current /\ v \in current[n]
        \/ ~call.present /\ <<n, v>> \in Range(MultiParsed)

C7_Witness ==
  /\ kind = "multi"
  /\ call.made
  /\ \E n \in DOMAIN pre :
       /\ pre[n] # {}
       /\ current[n] # pre[n]
       /\ current[n] \cap pre[n] # {}

\* C8: in ensure_multi_packages with present=true, for every desired name n,
\* toChange holds exactly desired[n] minus current[n], noop exactly desired[n]
\* intersect current[n], and afterwards current[n] is their union with the old
\* current[n]; a name missing from current has the empty version set.
C8_MultiClassification ==
  (kind = "multi" /\ call.made /\ call.present) =>
    \A n \in Names(MultiParsed) :
      LET desired == {p[2] : p \in {q \in Range(MultiParsed) : q[1] = n}}
          old == IF n \in DOMAIN pre THEN pre[n] ELSE {}
      IN /\ {p[2] : p \in {q \in Range(out.diff) : q[1] = n}} = desired \ old
         /\ {p[2] : p \in {q \in Range(out.noop) : q[1] = n}} = desired \cap old
         /\ n \in DOMAIN current
         /\ current[n] = old \cup desired

C8_Witness ==
  /\ kind = "multi"
  /\ call.made
  /\ call.present
  /\ \E n \in Names(MultiParsed) :
       /\ n \in DOMAIN pre
       /\ VersionsOf(out.diff, n) # {}
       /\ VersionsOf(out.noop, n) # {}
       /\ pre[n] \ VersionsOf(out.noop, n) # {}

\* C9: in ensure_versionless_packages, present=true installs desired minus
\* current, notes desired intersect current and leaves current union desired;
\* present=false uninstalls desired intersect current, notes desired minus current
\* and leaves current minus desired.
C9_Versionless ==
  (kind = "versionless" /\ call.made) =>
    LET desired == Range(call.packages)
        changed == Range(out.diff)
        noted == Range(out.noop)
    IN /\ call.present =>
            /\ changed = desired \ pre
            /\ noted = desired \cap pre
            /\ current = pre \cup desired
       /\ ~call.present =>
            /\ changed = desired \cap pre
            /\ noted = desired \ pre
            /\ current = pre \ desired
       /\ Len(out.diff) = Cardinality(changed)
       /\ out.diff_specs = [i \in 1..Len(out.diff) |-> shlex_quote(out.diff[i])]
       /\ Len(out.noops) = Cardinality(noted)

C9_Witness ==
  /\ kind = "versionless"
  /\ call.made
  /\ ~call.present
  /\ out.diff # <<>>
  /\ out.noop # <<>>
  /\ current # pre

\* What the emission policy allows for one verb and its rendered specs.
IsEmission(commands, verb, specs) ==
  IF specs = <<>> THEN commands = <<>>
  ELSE IF call.rollup_commands
  THEN /\ Len(commands) = 1
       /\ commands[1] = verb \o StrSpace \o Join(StrSpace, specs)
  ELSE /\ Len(commands) = Len(specs)
       /\ \A i \in 1..Len(specs) : commands[i] = verb \o StrSpace \o specs[i]

\* C10: _issue_commands emits nothing for an empty list, one command with all
\* specs in order in rollup mode, otherwise one command per spec in order; no
\* variant ever emits a command without an operand.
C10_EmissionPolicy ==
  call.made =>
    LET verb == IF call.present THEN install_command(kind) ELSE uninstall_command(kind)
    IN /\ \E k \in 0..Len(out.commands) :
            /\ IsEmission(SubSeq(out.commands, 1, k), verb, out.diff_specs)
            /\ IsEmission(SubSeq(out.commands, k + 1, Len(out.commands)),
                          upgrade_command, out.upgrade_specs)
       /\ \A i \in 1..Len(out.commands) : Len(out.commands[i]) >= 3

C10_Witness ==
  /\ call.made
  /\ call.rollup_commands
  /\ Len(out.diff_specs) = 2
  /\ Len(out.commands) = 1
  /\ out.noop = <<>>

\* C11: a call whose desired list is empty (the "not packages" early return)
\* emits no command and no noop message, raises nothing and leaves the snapshot
\* as it was, in every variant.
C11_EmptyInput ==
  (call.made /\ call.packages = <<>>) =>
    /\ out.commands = <<>>
    /\ out.noops = <<>>
    /\ ~out.raised
    /\ out.diff = <<>> /\ out.upgrade = <<>> /\ out.noop = <<>>
    /\ current = pre

C11_Witness ==
  /\ call.made
  /\ call.packages = <<>>
  /\ kind = "multi"
  /\ ~call.present
  /\ \E n \in DOMAIN current : current[n] # {}

\* C16: ensure_single_packages with present=false uninstalls exactly the desired
\* names that are keys of current, whatever their version, notes exactly the
\* desired names that are not, keeps the upgrade bucket empty and emits no
\* upgrade command; afterwards no desired name is a key of current, and no pop
\* hit a missing key.
C16_SingleRemoval ==
  (kind = "single" /\ call.made /\ ~call.present) =>
    LET desired == Names(SingleParsed)
    IN /\ Names(out.diff) = desired \cap DOMAIN pre
       /\ Names(out.noop) = desired \ DOMAIN pre
       /\ out.upgrade = <<>>
       /\ out.upgrade_specs = <<>>
       /\ \A i \in 1..Len(out.commands) : out.commands[i][1] = uninstall_command(kind)[1]
       /\ desired \cap DOMAIN current = {}
       /\ ~out.raised

C16_Witness ==
  /\ kind = "single"
  /\ call.made
  /\ ~call.present
  /\ out.noop # <<>>
  /\ \E i \in 1..Len(out.diff) :
       /\ out.diff[i][1] \in DOMAIN pre
       /\ out.diff[i][2] # pre[out.diff[i][1]]
       /\ out.diff[i][1] \notin DOMAIN current

\* C17: ensure_multi_packages with present=false removes from current[n] exactly
\* the desired versions of n that were in it; a name whose set becomes empty stays
\* a key mapped to the empty set, and no key is added.
C17_MultiRemovalKeepsKey ==
  (kind = "multi" /\ call.made /\ ~call.present) =>
    /\ DOMAIN current = DOMAIN pre
    /\ \A n \in DOMAIN pre :
         current[n] = pre[n] \ {v \in pre[n] : <<n, v>> \in Range(MultiParsed)}

C17_Witness ==
  /\ kind = "multi"
  /\ call.made
  /\ ~call.present
  /\ \E n \in DOMAIN current : current[n] = {} /\ pre[n] # {}
  /\ \E n \in Names(MultiParsed) : n \notin DOMAIN current

\* Whether two snapshots hold the same entry for one name: the key in both or in
\* neither, and then with the same version or version set.
SameEntry(k, before, after, n) ==
  IF k = "versionless" THEN (n \in before) <=> (n \in after)
  ELSE /\ (n \in DOMAIN before) <=> (n \in DOMAIN after)
       /\ n \in DOMAIN before => after[n] = before[n]

\* The names the last call parsed out of its desired list.
DesiredNames ==
  CASE kind = "single" -> Names(SingleParsed)
    [] kind = "multi" -> Names(MultiParsed)
    [] OTHER -> Range(call.packages)

\* The desired names none of whose items went to toChange or toUpgrade.
NoopOnlyNames ==
  IF kind = "versionless" THEN Range(out.noop)
  ELSE Names(out.noop) \ (Names(out.diff) \cup Names(out.upgrade))

\* C20: in every call of the three variants the entries of names outside the
\* parsed desired names are unchanged, and so are the entries of desired names
\* classified as noop (for multi-version also each single noop pair).
C20_Frame ==
  call.made =>
    /\ \A n \in PackageNames \ DesiredNames : SameEntry(kind, pre, current, n)
    /\ \A n \in NoopOnlyNames : SameEntry(kind, pre, current, n)
    /\ kind = "multi" =>
         \A i \in 1..Len(out.noop) :
           LET n == out.noop[i][1]
               v == out.noop[i][2]
           IN (v \in dict_get(pre, n)) <=> (v \in dict_get(current, n))

C20_Witness ==
  /\ call.made
  /\ kind = "multi"
  /\ call.present
  /\ current # pre
  /\ out.noop # <<>>
  /\ \E n \in DOMAIN pre \ DesiredNames : pre[n] # {}

\* The (name, version) pairs of the three buckets of the last call, in one list.
AllBuckets == out.diff \o out.upgrade \o out.noop

\* C18: in ensure_single_packages a name given by several specs is handled with
\* the version of the last of them only: it is in exactly one bucket, once, with
\* that version, gets at most one operand, and a present=true call that installs
\* or upgrades it leaves current[name] at that version.
C18_LastWriteWins ==
  (kind = "single" /\ call.made) =>
    \A n \in Names(SingleParsed) :
      Cardinality({i \in 1..Len(SingleParsed) : SingleParsed[i][1] = n}) > 1 =>
        LET last == dict_last(SingleParsed, n)
            at == {i \in 1..Len(AllBuckets) : AllBuckets[i][1] = n}
            operands == {i \in 1..Len(out.diff) : out.diff[i][1] = n}
        IN /\ Cardinality(at) = 1
           /\ \A i \in at : AllBuckets[i][2] = last
           /\ Cardinality(operands) <= 1
           /\ Len(out.diff_specs) = Len(out.diff)
           /\ Len(out.upgrade_specs) = Len(out.upgrade)
           /\ (call.present /\ n \in Names(out.diff) \cup Names(out.upgrade)) =>
                current[n] = last

\* The positions of s at which sep occurs.
Occurrences(s, sep) ==
  {i \in 1..Len(s) : i + Len(sep) - 1 <= Len(s) /\ SubSeq(s, i, i + Len(sep) - 1) = sep}

\* What parse_package_version owes for any token: the token and latest when the
\* join does not occur, else the texts around the rightmost occurrence of the
\* join; a name is returned either way.
SplitsOnceAtRightmost ==
  LET token == Token(call)
      join == call.version_join
  IN /\ Len(out) = 2
     /\ Occurrences(token, join) = {} => out = <<token, call.latest>>
     /\ Occurrences(token, join) # {} =>
          /\ token = out[1] \o join \o out[2]
          /\ \A i \in Occurrences(token, join) : i <= Len(out[1]) + 1

\* C12 as stated: the split rule, and name + join + version parses back to
\* (name, version) for every name and every version that does not contain the
\* join.
C12_ParserRoundTrip ==
  (kind = "parse_package_version" /\ call.made) =>
    /\ SplitsOnceAtRightmost
    /\ (call.joined /\ Occurrences(call.version, call.version_join) = {}) =>
         out = <<call.name, call.version>>

\* C12, amended: the split rule, and name + join + version parses back to
\* (name, version) when no occurrence of the join begins to the right of the
\* inserted one, which is so for every version without the join when the join
\* is a single character.
C12_ParserRoundTripRightmostJoin ==
  (kind = "parse_package_version" /\ call.made) =>
    /\ SplitsOnceAtRightmost
    /\ (call.joined /\ \A i \in Occurrences(Token(call), call.version_join) :
                         i <= Len(call.name) + 1) =>
         out = <<call.name, call.version>>
    /\ (call.joined /\ Len(call.version_join) = 1
          /\ Occurrences(call.version, call.version_join) = {}) =>
         out = <<call.name, call.version>>

C12_Witness ==
  /\ kind = "parse_package_version"
  /\ call.made
  /\ call.joined
  /\ call.version_join = StrEq
  /\ Occurrences(call.name, call.version_join) # {}
  /\ call.version # <<>>
  /\ Occurrences(call.version, call.version_join) = {}
  /\ out = <<call.name, call.version>>

\* C13: _quote_package_spec renders one operand per pair, in order: the quoted
\* name alone when the version is empty, whatever the join; the quoted name, a
\* space and the quoted version when the join is a single space; otherwise the
\* quoting of name, join and version put together.
C13_SpecQuoter ==
  (kind = "_quote_package_spec" /\ call.made) =>
    /\ Len(out) = Len(call.packages)
    /\ \A i \in 1..Len(call.packages) :
         LET name == call.packages[i][1]
             version == call.packages[i][2]
         IN /\ version = <<>> => out[i] = shlex_quote(name)
            /\ (version # <<>> /\ call.command_version_join = StrSpace) =>
                 out[i] = shlex_quote(name) \o StrSpace \o shlex_quote(version)
            /\ (version # <<>> /\ call.command_version_join # StrSpace) =>
                 out[i] = shlex_quote(name \o call.command_version_join \o version)

C13_Witness ==
  /\ kind = "_quote_package_spec"
  /\ call.made
  /\ call.command_version_join = StrSpace
  /\ Len(call.packages) = 2
  /\ call.packages[1] = <<<<"a", " ", "b">>, <<"1", " ", "0">>>>
  /\ call.packages[2][2] = <<>>
  /\ out[1] = <<"'", "a", " ", "b", "'", " ", "'", "1", " ", "0", "'">>
  /\ out[2] = <<"'", "'", "\"", "'", "\"", "'", "'">>

\* A field of an entry record with a missing key or None read as empty.
FieldOrEmpty(r, attr) ==
  IF attr \in DOMAIN r /\ r[attr] # None THEN r[attr] ELSE ""

\* A record cut down to the keys in D.
Restrict(r, D) == [a \in DOMAIN r \cap D |-> r[a]]

\* C14: equivalent_entries is true exactly when setname, entry and extras agree
\* once a missing key or None is read as the empty string; it is reflexive,
\* symmetric and transitive, and no other key changes its result.
C14_EquivalentEntries ==
  (kind = "equivalent_entries" /\ call.made) =>
    /\ out.lr <=> /\ FieldOrEmpty(call.lhs, "setname") = FieldOrEmpty(call.rhs, "setname")
                  /\ FieldOrEmpty(call.lhs, "entry") = FieldOrEmpty(call.rhs, "entry")
                  /\ FieldOrEmpty(call.lhs, "extras") = FieldOrEmpty(call.rhs, "extras")
    /\ out.ll
    /\ out.lr <=> out.rl
    /\ (out.lr /\ out.rt) => out.lt
    /\ out.lr <=> equivalent_entries(Restrict(call.lhs, EntryAttrs),
                                     Restrict(call.rhs, EntryAttrs))

C14_Witness ==
  /\ kind = "equivalent_entries"
  /\ call.made
  /\ out.lr /\ out.rt /\ out.lt
  /\ "extras" \notin DOMAIN call.lhs
  /\ "extras" \in DOMAIN call.rhs /\ call.rhs["extras"] = None
  /\ "extras" \in DOMAIN call.third /\ call.third["extras"] = ""
  /\ "comment" \in DOMAIN call.lhs
  /\ "comment" \notin DOMAIN call.rhs

\* The decision tree of ipset_entry, read off the snapshot before the call.
EntryDecision ==
  LET before == pre[call.set_name]
      after == current[call.set_name]
      desired == [setname |-> call.set_name, entry |-> call.entry, extras |-> call.extras]
      exists == call.entry \in DOMAIN before
      same == /\ exists
              /\ FieldOrEmpty(before[call.entry], "setname") = call.set_name
              /\ FieldOrEmpty(before[call.entry], "entry") = call.entry
              /\ FieldOrEmpty(before[call.entry], "extras") = call.extras
      add == <<"ipset", "add", call.set_name, call.entry, call.extras>>
  IN /\ (~exists /\ call.present) =>
          /\ out.commands = <<add>>
          /\ after = dict_set(before, call.entry, desired)
     /\ (exists /\ call.present /\ ~same) =>
          /\ out.commands = <<add \o <<"-exist">>>>
          /\ after = dict_set(before, call.entry, desired)
     /\ (exists /\ ~call.present) =>
          /\ out.commands = <<<<"ipset", "del", call.set_name, call.entry>>>>
          /\ after = dict_pop(before, call.entry)
     /\ ((same /\ call.present) \/ (~exists /\ ~call.present)) =>
          /\ out.commands = <<>>
          /\ Len(out.noops) = 1
          /\ current = pre
     /\ out.commands # <<>> => out.noops = <<>>
     /\ \A n \in SetNames \ {call.set_name} : current[n] = pre[n]

\* The decision tree of ipset_set, by set name alone.
SetDecision ==
  LET exists == call.set_name \in DOMAIN pre
  IN /\ (~exists /\ call.present) =>
          /\ out.commands =
               <<<<"ipset", "create", call.set_name, call.set_type, call.extras>>>>
          /\ DOMAIN current = DOMAIN pre \cup {call.set_name}
          /\ current[call.set_name].name = call.set_name
          /\ current[call.set_name].type = call.set_type
          /\ current[call.set_name].header = call.extras
     /\ (exists /\ ~call.present) =>
          /\ out.commands = <<<<"ipset", "destroy", call.set_name>>>>
          /\ DOMAIN current = DOMAIN pre \ {call.set_name}
     /\ (exists <=> call.present) =>
          /\ out.commands = <<>>
          /\ Len(out.noops) = 1
          /\ current = pre
     /\ out.commands # <<>> => out.noops = <<>>
     /\ \A n \in DOMAIN pre \ {call.set_name} : n \in DOMAIN current /\ current[n] = pre[n]

\* C19: ipset_entry adds an absent entry, re-adds with -exist an entry that is
\* there but not equivalent to the desired record, deletes an entry that is
\* there when present=false and otherwise only notes a noop; ipset_set creates,
\* destroys or notes a noop by set name; the snapshot changes with every
\* command, so a call repeated with identical arguments emits no command.
C19_IpsetDecisionTree ==
  call.made =>
    /\ kind = "ipset_entry" => EntryDecision
    /\ kind = "ipset_set" => SetDecision
    /\ rel = "repeat" => out.commands = <<>>

C19_Witness ==
  /\ kind = "ipset_entry"
  /\ call.made
  /\ rel = "repeat"
  /\ call.present
  /\ prevOut.commands =
       <<<<"ipset", "add", call.set_name, call.entry, call.extras, "-exist">>>>
  /\ out.commands = <<>>
  /\ out.noops # <<>>

\* Whether the last call of iptables.rule was given the argument.
Given(argument) == call[argument] # <<>>

\* Whether the last call is on the nat table with this jump.
NatJump(jump) == call.table = <<"nat">> /\ call.jump = <<jump>>

\* The illegal combinations of arguments of iptables.rule.
IllegalCombination ==
  \/ (Given("destination_port") \/ Given("source_port")) /\ ~Given("protocol")
  \/ Given("to_destination") /\ ~NatJump("DNAT")
  \/ Given("to_source") /\ ~NatJump("SNAT")
  \/ Given("to_ports") /\ ~NatJump("REDIRECT")
  \/ Given("log_prefix") /\ call.jump # <<"LOG">>
  \/ Given("reject_with") /\ call.jump # <<"REJECT">>

C21_AddThenRemove ==
  (kind = "iptables.rule" /\ call.made) =>
    /\ (rel = "flip" /\ ~call.present /\ prevOut.commands # <<>>) =>
         /\ out.commands = <<<<IF call.version = 4 THEN "iptables" ELSE "ip6tables", "-t">>
                               \o call.table \o rule_args(call)>>
         /\ current = pre2
    /\ (rel = "repeat" /\ call.present) => out.commands = <<>>

\* The filter arguments C22 names.
FilterArguments ==
  {"protocol", "source", "destination", "not_destination", "in_interface",
   "out_interface", "jump", "chain"}

\* The call c with one argument changed to its other value.
Vary(c, argument) ==
  [c EXCEPT ![argument] =
     IF argument = "jump" THEN (IF @ = <<"ACCEPT">> THEN <<"LOG">> ELSE <<"ACCEPT">>)
     ELSE IF argument = "chain" THEN (IF @ = <<"INPUT">> THEN <<"FORWARD">> ELSE <<"INPUT">>)
     ELSE IF @ = <<>> THEN RuleOptions[argument] ELSE <<>>]

\* The value the last call gives for an argument, as the rule would carry it.
CallValue(argument) ==
  IF argument \in {"source", "destination", "not_destination"}
  THEN _normalize_cidr(call[argument], call.version)
  ELSE call[argument]

\* The value a rule of the snapshot holds for an argument; none when it has none.
RuleValue(definition, argument) ==
  IF argument \in DOMAIN definition THEN definition[argument] ELSE <<>>

\* Whether iptables.rule tells rules apart by each of the arguments: the last
\* present=true call and the same call with one of them changed build different
\* definitions, and a first call whose rule differs from every rule of the
\* snapshot in one of them emits its command and appends its definition.
DistinguishedBy(arguments) ==
  (kind = "iptables.rule" /\ call.made /\ call.present /\ ~out.raised) =>
    /\ \A a \in arguments :
         ~rule_invalid(Vary(call, a)) =>
           parse_iptables_rule(rule_args(Vary(call, a)))
             # parse_iptables_rule(rule_args(call))
    /\ (rel = "new" /\ \A i \in 1..Len(pre) :
                         \E a \in arguments : CallValue(a) # RuleValue(pre[i], a)) =>
         /\ out.commands # <<>>
         /\ current = Append(pre, parse_iptables_rule(rule_args(call)))

\* C22: iptables.rule tells rules apart by protocol, source, destination,
\* not_destination, in_interface, out_interface, jump and chain, so a rule that
\* differs from every rule of the snapshot in one of them is never taken as
\* existing and its command is emitted.
C22_DistinguishesFilterArguments == DistinguishedBy(FilterArguments)

\* C23: a call of iptables.chain repeated with identical arguments after the
\* first one emitted its create (and policy) command, or its delete command,
\* emits no command.
C23_ChainIdempotent ==
  (kind = "iptables.chain" /\ rel = "repeat" /\ prevOut.commands # <<>>) =>
    out.commands = <<>>

\* C24: legacy ensure_packages keeps current_packages in step with the commands
\* it emits.  With version_join set, after a present=true call every desired
\* package is found in current_packages; after a present=false call every
\* package named in the uninstall command is no longer found; and an identical
\* repeated call emits neither an install nor an uninstall command.
C24_LegacyInStep ==
  (kind = "legacy" /\ call.made /\ ~call.packages_is_none) =>
    /\ (call.present /\ call.version_join # <<>>) =>
         \A i \in 1..Len(legacy_packages(call)) :
           _has_package(legacy_packages(call)[i], current, FALSE)
    /\ ~call.present =>
         \A i \in 1..Len(legacy_packages(call)) :
           join_package(legacy_packages(call)[i], call.version_join) \in Range(out.diff_packages)
             => ~_has_package(legacy_packages(call)[i], current, TRUE)
    /\ rel = "repeat" => out.diff_packages = <<>>

====
